---- MODULE Spec2Model ----
(***************************************************************************)
(* A model of PasswordCracker (src/password_cracker.py): construction,     *)
(* the brute-force loop of crack() taken one candidate at a time, and the  *)
(* report built by generate_report().                                      *)
(*                                                                         *)
(* Characters are their code points ("a" = 97, "b" = 98, "A" = 65) and a   *)
(* string is a sequence of code points.                                    *)
(* Wall-clock readings (start_time, end_time, a checkpoint's elapsed time  *)
(* and rate, the report's duration and timestamp) are not modelled: they   *)
(* never influence the control flow or the counters.                       *)
(***************************************************************************)
EXTENDS Integers, Sequences, FiniteSets, TLC

VARIABLES
    pc,               \* position of the program: "new", "idle", "loop", "product", "endlength", "exit", "done"
    password,         \* self.password
    max_length,       \* self.max_length
    charset,          \* self.charset
    verbose,          \* self.verbose
    attempts,         \* self.attempts
    found,            \* self.found
    cracked_password, \* self.cracked_password
    length_attempts,  \* self.length_attempts (dict: length -> count)
    charset_hits,     \* self.charset_hits (Counter: char -> count, keys made on first increment)
    time_checkpoints, \* self.time_checkpoints (list of snapshots)
    length,           \* loop variable of the outer for
    length_start,     \* local length_start
    iter,             \* itertools.product iterator: index tuple of the next candidate, <<>> when exhausted
    history,          \* ghost: the candidates generated by the current crack() call, in order
    runs,             \* ghost: number of crack() calls that have returned
    prev,             \* ghost: the results at the previous return of crack(), Absent when none
    report            \* the last value returned by generate_report(), NoReport when none

vars == <<pc, password, max_length, charset, verbose, attempts, found,
          cracked_password, length_attempts, charset_hits, time_checkpoints,
          length, length_start, iter, history, runs, prev, report>>

config == <<password, max_length, charset, verbose>>
analytics == <<attempts, found, cracked_password, length_attempts,
               charset_hits, time_checkpoints>>

(***************************************************************************)
(* Bounds of the model.                                                    *)
(***************************************************************************)
\* largest max_length passed to the constructor
MaxLength == 2
\* longest charset argument passed to the constructor
MaxCharsetLen == 2
\* number of crack() calls made on one engine (SpecRerun)
MaxRuns == 2
\* The progress interval.  The source's literal is 100000 (line 104); the
\* model scales it down so that multiples of it are reached by small runs.
CheckpointInterval == 3

(***************************************************************************)
(* Values.                                                                 *)
(***************************************************************************)
\* None where a string is expected: no string holds the code point -1
None == <<-1>>
\* an optional record is <<>> (None, or nothing returned yet) or <<record>>
Absent == <<>>
Some(r) == <<r>>
NoReport == Absent
\* the empty dict
NoDict == <<>>
\* Counter()
NoHits == <<>>

Range(a, b) == [i \in 1..(b - a + 1) |-> a + i - 1]

\* string.ascii_lowercase, ascii_uppercase, digits, punctuation
AsciiLowercase == Range(97, 122)
AsciiUppercase == Range(65, 90)
Digits == Range(48, 57)
Punctuation == Range(33, 47) \o Range(58, 64) \o Range(91, 96) \o Range(123, 126)

\* string.ascii_letters + string.digits + string.punctuation
DefaultCharset == AsciiLowercase \o AsciiUppercase \o Digits \o Punctuation

Elems(s) == {s[i] : i \in 1..Len(s)}

\* the symbols the charset arguments are built from: "a", "b"
Symbols == {97, 98}
\* the symbols of the targets: those and "A"
TargetSymbols == Symbols \cup {65}

SeqsUpTo(S, n) == UNION {[1..m -> S] : m \in 0..n}

\* The constructor's arguments.  The empty charset argument selects the
\* 94-symbol default; it is run with max_length and targets up to 1 only.
Configs ==
    {c \in [password : SeqsUpTo(TargetSymbols, MaxLength + 1),
            max_length : (-1)..MaxLength,
            charset : SeqsUpTo(Symbols, MaxCharsetLen),
            verbose : BOOLEAN] :
        c.charset = <<>> => (c.max_length <= 1 /\ Len(c.password) <= 1)}

(***************************************************************************)
(* Pure helpers.                                                           *)
(***************************************************************************)
RECURSIVE Pow(_, _)
Pow(b, e) == IF e <= 0 THEN 1 ELSE b * Pow(b, e - 1)

\* sum(charset_size ** i for i in range(1, n + 1))
RECURSIVE SumPow(_, _)
SumPow(k, n) == IF n <= 0 THEN 0 ELSE Pow(k, n) + SumPow(k, n - 1)

Max(S) == CHOOSE x \in S : \A y \in S : y <= x

\* itertools.product(charset, repeat=n): the first index tuple
FirstTuple(n) == [i \in 1..n |-> 1]

\* a product whose first position cycles fastest
AdvanceFirstFastest(ind, k) ==
    LET movable == {p \in 1..Len(ind) : ind[p] < k}
    IN  IF movable = {} THEN <<>>
        ELSE LET p == CHOOSE x \in movable : \A y \in movable : x <= y
             IN  [i \in 1..Len(ind) |->
                    IF i > p THEN ind[i] ELSE IF i = p THEN ind[i] + 1 ELSE 1]

\* itertools.product: the next index tuple, the last position cycling
\* fastest; <<>> once the product is exhausted
Advance(ind, k) ==
    LET movable == {p \in 1..Len(ind) : ind[p] < k}
    IN  IF movable = {} THEN <<>>
        ELSE LET p == Max(movable)
             IN  [i \in 1..Len(ind) |->
                    IF i < p THEN ind[i] ELSE IF i = p THEN ind[i] + 1 ELSE 1]

\* guess = ''.join(guess_tuple)
Join(ind, cs) == [i \in 1..Len(ind) |-> cs[ind[i]]]

\* Counter.__getitem__: a missing key reads 0
Hits(hits, c) == IF c \in DOMAIN hits THEN hits[c] ELSE 0

\* a count of the distinct characters of the guess only
CountHitsDistinct(hits, guess) ==
    [c \in DOMAIN hits \cup Elems(guess) |->
        Hits(hits, c) + (IF c \in Elems(guess) THEN 1 ELSE 0)]

\* for char in guess: self.charset_hits[char] += 1
CountHits(hits, guess) ==
    [c \in DOMAIN hits \cup Elems(guess) |->
        Hits(hits, c) + Cardinality({i \in 1..Len(guess) : guess[i] = c})]

\* a comparison that accepts a prefix of the target
MatchPrefix(guess, target) ==
    /\ Len(guess) <= Len(target)
    /\ SubSeq(target, 1, Len(guess)) = guess

\* guess == self.password
Match(guess, target) == guess = target

\* range(1, max_length): one length short
LoopContinuesShort(l, m) == l < m

\* for length in range(1, self.max_length + 1)
LoopContinues(l, m) == l <= m

\* self.verbose and self.attempts % 100000 == 0
ProgressDue(v, n) == v /\ n % CheckpointInterval = 0

\* round(num / den * scale, digits) as an integer count of 10^-digits,
\* where units = scale * 10^digits; halves round to even
RoundRatio(num, den, units) ==
    LET q == (num * units) \div den
        r == (num * units) % den
    IN  IF 2 * r > den \/ (2 * r = den /\ q % 2 = 1) THEN q + 1 ELSE q

\* an estimate that counts the strings of the target's length only
EstimateExactLengthOnly(cs, pw) ==
    [total_combinations |-> Pow(Len(cs), Len(pw)),
     charset_size |-> Len(cs),
     password_length |-> Len(pw)]

\* estimate_theoretical_time()
EstimateTheoreticalTime(cs, pw) ==
    [total_combinations |-> SumPow(Len(cs), Len(pw)),
     charset_size |-> Len(cs),
     password_length |-> Len(pw)]

HasAny(pw, class) == \E i \in 1..Len(pw) : pw[i] \in Elems(class)

\* analyze_password_complexity()
AnalyzePasswordComplexity(cs, pw, m) ==
    LET lower == HasAny(pw, AsciiLowercase)
        upper == HasAny(pw, AsciiUppercase)
        digit == HasAny(pw, Digits)
        special == HasAny(pw, Punctuation)
        B(x) == IF x THEN 1 ELSE 0
    IN  [length |-> Len(pw),
         has_lowercase |-> lower,
         has_uppercase |-> upper,
         has_digits |-> digit,
         has_special |-> special,
         unique_chars |-> Cardinality(Elems(pw)),
         character_types |-> B(lower) + B(upper) + B(digit) + B(special),
         search_space |-> SumPow(Len(cs), m),
         exact_length_space |-> Pow(Len(cs), Len(pw))]

(***************************************************************************)
(* The program.                                                            *)
(***************************************************************************)
Init ==
    /\ pc = "new"
    /\ password = <<>>
    /\ max_length = 0
    /\ charset = DefaultCharset
    /\ verbose = FALSE
    /\ attempts = 0
    /\ found = FALSE
    /\ cracked_password = None
    /\ length_attempts = NoDict
    /\ charset_hits = NoHits
    /\ time_checkpoints = <<>>
    /\ length = 0
    /\ length_start = 0
    /\ iter = <<>>
    /\ history = <<>>
    /\ runs = 0
    /\ prev = Absent
    /\ report = NoReport

\* __init__(password, max_length, charset, verbose): no argument is checked
Construct ==
    /\ pc = "new"
    /\ \E c \in Configs :
        /\ password' = c.password
        /\ max_length' = c.max_length
        /\ charset' = IF c.charset = <<>> THEN DefaultCharset ELSE c.charset
        /\ verbose' = c.verbose
    /\ attempts' = 0
    /\ found' = FALSE
    /\ cracked_password' = None
    /\ length_attempts' = NoDict
    /\ charset_hits' = NoHits
    /\ time_checkpoints' = <<>>
    /\ pc' = "idle"
    /\ UNCHANGED <<length, length_start, iter, history, runs, prev, report>>

\* entry of crack(): only start_time is written; no counter is touched
CrackEntry ==
    /\ pc' = "loop"
    /\ length' = 1
    /\ history' = <<>>
    /\ report' = NoReport
    /\ UNCHANGED <<config, analytics, length_start, iter, runs>>

\* the first crack() on a constructed engine
CrackBegin ==
    /\ pc = "idle"
    /\ prev' = prev
    /\ CrackEntry

\* a further crack() on the same engine
CrackAgain ==
    /\ pc = "done"
    /\ runs < MaxRuns
    /\ prev' = Some([attempts |-> attempts, length_attempts |-> length_attempts,
                      cracked_password |-> cracked_password])
    /\ CrackEntry

\* head of the outer loop with a length to try: length_start and a fresh product
BeginLength ==
    /\ pc = "loop"
    /\ LoopContinues(length, max_length)
    /\ length_start' = attempts
    /\ iter' = FirstTuple(length)
    /\ pc' = "product"
    /\ UNCHANGED <<config, analytics, length, history, runs, prev, report>>

\* one iteration of the inner loop
Attempt ==
    /\ pc = "product"
    /\ iter # <<>>
    /\ LET guess == Join(iter, charset)
           n == attempts + 1
       IN  /\ attempts' = n
           /\ charset_hits' = CountHits(charset_hits, guess)
           /\ history' = Append(history, guess)
           /\ time_checkpoints' =
                IF ProgressDue(verbose, n)
                THEN Append(time_checkpoints, [attempts |-> n])
                ELSE time_checkpoints
           /\ IF Match(guess, password)
              THEN /\ found' = TRUE
                   /\ cracked_password' = guess
                   /\ pc' = "endlength"
                   /\ iter' = iter
              ELSE /\ UNCHANGED <<found, cracked_password>>
                   /\ pc' = "product"
                   /\ iter' = Advance(iter, Len(charset))
    /\ UNCHANGED <<config, length_attempts, length, length_start, runs, prev, report>>

\* after the inner loop (exhausted or broken out of): record the length,
\* then leave the outer loop if found, else go on to the next length
EndLength ==
    /\ IF pc = "product" THEN iter = <<>> ELSE pc = "endlength"
    /\ length_attempts' = (length :> (attempts - length_start)) @@ length_attempts
    /\ IF found
       THEN pc' = "exit" /\ length' = length
       ELSE pc' = "loop" /\ length' = length + 1
    /\ UNCHANGED <<config, attempts, found, cracked_password, charset_hits,
                   time_checkpoints, length_start, iter, history, runs, prev, report>>

\* the outer loop is over: end_time, return self.found
CrackReturn ==
    /\ IF pc = "loop" THEN ~LoopContinues(length, max_length) ELSE pc = "exit"
    /\ pc' = "done"
    /\ runs' = runs + 1
    /\ UNCHANGED <<config, analytics, length, length_start, iter, history, prev, report>>

\* generate_report(), called before or after a run
GenerateReport ==
    /\ pc \in {"idle", "done"}
    /\ report = NoReport
    /\ report' = Some(
        [success |-> found,
         password |-> IF found THEN cracked_password ELSE None,
         total_attempts |-> attempts,
         efficiency_percentage |->
            IF attempts > 0 THEN RoundRatio(1, attempts, 100000000) ELSE 0,
         max_length |-> max_length,
         charset_size |-> Len(charset),
         attempts_by_length |-> length_attempts,
         password_analysis |->
            IF found THEN Some(AnalyzePasswordComplexity(charset, password, max_length))
            ELSE Absent,
         search_efficiency |->
            IF found
            THEN LET t == EstimateTheoreticalTime(charset, password)
                 IN  Some([combinations_tried |-> attempts,
                           total_search_space |-> t.total_combinations,
                           percentage_explored |->
                               RoundRatio(attempts, t.total_combinations, 1000000)])
            ELSE Absent])
    /\ UNCHANGED <<pc, config, analytics, length, length_start, iter, history, runs, prev>>

\* one engine, one run (as main() uses it)
Next ==
    \/ Construct
    \/ CrackBegin
    \/ BeginLength
    \/ Attempt
    \/ EndLength
    \/ CrackReturn
    \/ GenerateReport

Spec == Init /\ [][Next]_vars

\* one engine, crack() called up to MaxRuns times
NextRerun ==
    \/ Next
    \/ CrackAgain

SpecRerun == Init /\ [][NextRerun]_vars

(***************************************************************************)
(* Reference arithmetic of the properties, independent of the program.     *)
(***************************************************************************)
\* k + k^2 + ... + k^n in closed form (0 when n <= 0)
GeometricSum(k, n) ==
    IF n <= 0 THEN 0
    ELSE IF k = 1 THEN n
    ELSE (k * (Pow(k, n) - 1)) \div (k - 1)

\* 1-based index of the first occurrence of c in cs
FirstIndex(c, cs) ==
    CHOOSE j \in 1..Len(cs) : cs[j] = c /\ \A h \in 1..(j - 1) : cs[h] # c

\* value of the target read as a base-k numeral, from position i on
RECURSIVE Numeral(_, _, _)
Numeral(pw, cs, i) ==
    IF i > Len(pw) THEN 0
    ELSE (FirstIndex(pw[i], cs) - 1) * Pow(Len(cs), Len(pw) - i) + Numeral(pw, cs, i + 1)

\* 1-based position of the target among the strings of its length
Position(pw, cs) == 1 + Numeral(pw, cs, 1)

Reachable ==
    /\ Len(password) \in 1..max_length
    /\ \A i \in 1..Len(password) : password[i] \in Elems(charset)

RECURSIVE SumDict(_)
SumDict(d) ==
    IF DOMAIN d = {} THEN 0
    ELSE LET x == CHOOSE y \in DOMAIN d : TRUE
         IN  d[x] + SumDict([z \in DOMAIN d \ {x} |-> d[z]])

RECURSIVE WeightedSumDict(_)
WeightedSumDict(d) ==
    IF DOMAIN d = {} THEN 0
    ELSE LET x == CHOOSE y \in DOMAIN d : TRUE
         IN  x * d[x] + WeightedSumDict([z \in DOMAIN d \ {x} |-> d[z]])

\* occurrences of c in the candidates hist[1..n]
RECURSIVE Occurrences(_, _, _)
Occurrences(c, hist, n) ==
    IF n = 0 THEN 0
    ELSE Cardinality({i \in 1..Len(hist[n]) : hist[n][i] = c}) + Occurrences(c, hist, n - 1)

AtBoundary == pc \in {"new", "idle", "loop", "exit", "done"}

\* an engine built from a configuration the specification admits:
\* a non-empty target and a positive max_length
ValidEngine == pc # "new" /\ Len(password) > 0 /\ max_length > 0

(***************************************************************************)
(* C1: in every state reached by crack(), found is true if and only if the *)
(* recorded matched string equals the target and is at most max_length     *)
(* long; when found is false no matched string is recorded.  Checked with  *)
(* repeated crack() calls (SpecRerun).                                     *)
(***************************************************************************)
C1_FoundIffMatched ==
    /\ found <=> (cracked_password = password /\ Len(cracked_password) <= max_length)
    /\ ~found => cracked_password = None

C1_Witness ==
    /\ pc = "done"
    /\ found
    /\ cracked_password = <<98, 97>>
    /\ runs = 1

(***************************************************************************)
(* C2: if the target is reachable (length L in 1..max_length, all its      *)
(* characters in the alphabet of size k), crack() ends with found = true,  *)
(* matched string = target and attempts = (k + ... + k^(L-1)) + the        *)
(* 1-based position of the target among the length-L strings in base-k     *)
(* order, first character most significant.                                *)
(***************************************************************************)
C2_General ==
    (pc = "done" /\ Reachable) =>
        /\ found
        /\ cracked_password = password
        /\ attempts = GeometricSum(Len(charset), Len(password) - 1)
                        + Position(password, charset)

C2_Example ==
    /\ pc = "done"
    /\ charset = <<97, 98>>
    /\ password = <<98, 97>>
    /\ max_length = 2

\* C2 as amended: the general count, and the example gives 5 attempts
\* ("a", "b", "aa", "ab", "ba")
C2_ReachableAttempts ==
    /\ C2_General
    /\ C2_Example => attempts = 5

\* C2 as stated: the general count, and the example gives 4 attempts
C2_Original ==
    /\ C2_General
    /\ C2_Example => attempts = 4

C2_Witness ==
    /\ C2_Example
    /\ found
    /\ cracked_password = <<98, 97>>
    /\ attempts = 5

(***************************************************************************)
(* C3: if the target is longer than max_length, crack() ends with          *)
(* found = false, attempts = |A| + ... + |A|^max_length, one per-length    *)
(* entry for each length 1..max_length (the whole of that length) and no   *)
(* entry for a longer length.                                              *)
(***************************************************************************)
C3_TooLongExhausts ==
    (pc = "done" /\ Len(password) > max_length) =>
        /\ ~found
        /\ attempts = GeometricSum(Len(charset), max_length)
        /\ DOMAIN length_attempts = 1..max_length
        /\ \A l \in DOMAIN length_attempts : length_attempts[l] = Pow(Len(charset), l)

C3_Witness ==
    /\ pc = "done"
    /\ Len(password) = 3
    /\ max_length = 2
    /\ charset = <<97, 98>>
    /\ attempts = 6
    /\ ~found

(***************************************************************************)
(* C4: whenever the engine is not in the middle of a length (before        *)
(* crack(), at each length boundary, after crack() returns, also after     *)
(* several crack() calls on one engine), the per-length attempt counts sum *)
(* to total attempts.                                                      *)
(***************************************************************************)
C4_LengthCountsSumToAttempts ==
    (ValidEngine /\ AtBoundary) => SumDict(length_attempts) = attempts

(***************************************************************************)
(* C5: an empty target or a non-positive max_length is rejected at         *)
(* construction: no engine exists with such a configuration, and no        *)
(* search state is produced for it.                                        *)
(***************************************************************************)
C5_InvalidConfigRejected ==
    pc # "new" => (Len(password) > 0 /\ max_length > 0 /\ Len(charset) > 0)

(***************************************************************************)
(* C6: each crack() call resets every counter on entry, so a second call   *)
(* on the same engine ends with the same total attempts, per-length        *)
(* breakdown and matched string as the first.                              *)
(***************************************************************************)
C6_ResetAndRepeatable ==
    ValidEngine =>
    /\ (pc = "loop" /\ length = 1) =>
            /\ attempts = 0
            /\ length_attempts = NoDict
            /\ charset_hits = NoHits
            /\ time_checkpoints = <<>>
            /\ ~found
            /\ cracked_password = None
    /\ (pc = "done" /\ prev # Absent) =>
            prev[1] = [attempts |-> attempts, length_attempts |-> length_attempts,
                       cracked_password |-> cracked_password]

(***************************************************************************)
(* C7: with checkpoint interval N a checkpoint is appended at every        *)
(* attempt whose running total is a multiple of N, verbose or not: the     *)
(* checkpoint sequence always holds floor(attempts / N) entries, the i-th  *)
(* taken at attempts = i * N.                                              *)
(***************************************************************************)
C7_CheckpointAtEveryMultiple ==
    ValidEngine =>
    /\ Len(time_checkpoints) = attempts \div CheckpointInterval
    /\ \A i \in 1..Len(time_checkpoints) :
            time_checkpoints[i].attempts = i * CheckpointInterval

(***************************************************************************)
(* C8: in the report of a run with found = true, the percentage of the     *)
(* search space explored is in [0, 100].  As stated: it is below 100       *)
(* whenever more than one candidate exists, and is 100 only when the whole *)
(* space (lengths 1..max_length) was enumerated.  As amended: attempts     *)
(* never exceed the report's total search space (the strings of lengths    *)
(* 1..len(target)), and they equal it, the percentage being exactly 100,   *)
(* exactly when the match is the last candidate of the target's length.    *)
(* Percentages are counted in units of 0.0001.                             *)
(***************************************************************************)
SuccessReport == report # NoReport /\ report[1].success

Efficiency == report[1].search_efficiency[1]

\* every character of the target first occurs at the alphabet's last place
MatchIsLastCandidate ==
    \A i \in 1..Len(password) : FirstIndex(password[i], charset) = Len(charset)

C9_NoCandidateTwice ==
    ValidEngine =>
    /\ \A i, j \in 1..Len(history) : i # j => history[i] # history[j]
    /\ (pc = "product" /\ iter = <<>>) =>
            Cardinality({g \in Elems(history) : Len(g) = length})
                = Pow(Len(charset), length)

(***************************************************************************)
(* C10: after every attempt the hit count of each character equals its     *)
(* number of occurrences over all candidates generated so far, the         *)
(* matching one included; at the end of a run the hit counts sum to the    *)
(* sum over lengths L of L * (per-length attempt count of L).              *)
(***************************************************************************)
C10_HitsCountOccurrences ==
    /\ Len(history) = attempts
    /\ DOMAIN charset_hits \subseteq Elems(charset)
    /\ \A c \in Elems(charset) :
            Hits(charset_hits, c) = Occurrences(c, history, Len(history))
    /\ pc = "done" => SumDict(charset_hits) = WeightedSumDict(length_attempts)

C10_Witness ==
    /\ pc = "done"
    /\ found
    /\ password = <<98, 97>>
    /\ charset = <<97, 98>>
    /\ charset_hits[97] = 5
    /\ charset_hits[98] = 3

====
